---------------------------- MODULE Spec2Model ----------------------------
(***************************************************************************)
(* State machine of the MapPage component (src/src/pages/MapPage.jsx):     *)
(* the React state hooks of the page, the react-query cache of the         *)
(* 'places' query, the remote Place store, the pending one-shot timers     *)
(* created with setTimeout, and the calls made on the Leaflet map widget.  *)
(*                                                                         *)
(* A nullable JavaScript value is the empty sequence (Null) or a one       *)
(* element sequence holding the value (Some(v)).                           *)
(***************************************************************************)
EXTENDS Integers, Sequences, FiniteSets, TLC

VARIABLES
    selectedPlace,      \* useState(null): place shown in the PlaceCard
    showAddForm,        \* useState(false)
    filterCategory,     \* useState('all')
    showFavoritesOnly,  \* useState(false); the page has no control that sets it
    mapCenter,          \* useState(null): viewport target centre
    mapZoom,            \* useState(null): viewport target zoom
    highlightedPlace,   \* useState(null): place whose marker pulses
    currentZoom,        \* useState(12): zoom recorded by ZoomTracker
    mapRef,             \* useRef(null): TRUE once the ref holds the map
    places,             \* data of useQuery(['places']), [] until loaded
    stale,              \* the 'places' query is invalidated / being fetched
    remote,             \* the Place entities held by the store
    pendingUpdates,     \* Place.update requests in flight, in send order
    timers,             \* pending setTimeout callbacks, oldest first
    widgetZoom,         \* map.getZoom() as of the last finished zoom
    fitBounds,          \* fitBounds calls received by the widget
    lastEvent,          \* observation: the handler that ran last
    scheduled,          \* observation: number of setTimeout calls so far
    recenters,          \* observation: number of handleRecenter calls
    lastToggle,         \* observation: the favourite toggle being followed
    overwritten         \* observation: the last timer undid a later user act

vars == <<selectedPlace, showAddForm, filterCategory, showFavoritesOnly,
          mapCenter, mapZoom, highlightedPlace, currentZoom, mapRef, places,
          stale, remote, pendingUpdates, timers, widgetZoom, fitBounds,
          lastEvent, scheduled, recenters, lastToggle, overwritten>>

(***************************************************************************)
(* Bounds of the model.                                                    *)
(***************************************************************************)
MaxPlaces == 4
MaxInteractionPlaces == 3
MaxScheduled == 3
MaxRecenters == 2
MaxPending == 2

(***************************************************************************)
(* Constants of the program.                                               *)
(***************************************************************************)
SearchDelay == 1500
AddDelay == 800
SearchZoom == 16
AddZoom == 15
InitialZoom == 12
ZoomThreshold == 13
SmallWidth == 16
SmallHeight == 21
LargeWidth == 32
LargeHeight == 42

Null == << >>
Some(v) == <<v>>

DefaultColor == "#6b7280"

\* const categoryColors = { restaurant: ..., landmark: ... }
categoryColors ==
    [c \in {"restaurant", "activity", "bar", "cafe", "landmark"} |->
        CASE c = "restaurant" -> "#f43f5e"
          [] c = "activity" -> "#10b981"
          [] c = "bar" -> "#a855f7"
          [] c = "cafe" -> "#d97706"
          [] c = "landmark" -> "#3b82f6"]

\* Members every object literal inherits from Object.prototype: the lookup
\* categoryColors[k] finds them when k is not an own key, and each is a
\* function or object, hence truthy.
ObjectPrototypeKeys ==
    {"constructor", "toString", "valueOf", "hasOwnProperty",
     "isPrototypeOf", "propertyIsEnumerable", "toLocaleString", "__proto__"}

\* categoryColors[category]: an own key gives its colour, an inherited key
\* gives the inherited member, anything else gives undefined (Null).
ColorLookup(category) ==
    IF category \in DOMAIN categoryColors THEN Some(categoryColors[category])
    ELSE IF category \in ObjectPrototypeKeys THEN Some("[inherited member]")
    ELSE Null

\* categoryColors[place.category] || '#6b7280'
MarkerColor(category) ==
    IF ColorLookup(category) # Null THEN ColorLookup(category)[1]
    ELSE DefaultColor

\* createIcon(color, zoomLevel)
createIcon(color, zoomLevel) ==
    LET isZoomedOut == zoomLevel < ZoomThreshold
        size == IF isZoomedOut THEN SmallWidth ELSE LargeWidth
        height == IF isZoomedOut THEN SmallHeight ELSE LargeHeight
    IN  [color |-> color, iconSize |-> <<size, height>>]

(***************************************************************************)
(* Places.  The fields the page never writes (category, coordinates) are   *)
(* fixed per id; is_favorite is the one field the page updates.            *)
(***************************************************************************)
PlaceIds == 1..MaxPlaces

CategoryOf(id) ==
    CASE id = 1 -> "bar"
      [] id = 2 -> "museum"
      [] id = 3 -> "bar"
      [] id = 4 -> "constructor"
      [] OTHER -> "cafe"

LatitudeOf(id) == 40 + (id % 3)
LongitudeOf(id) == (id % 2) - 74
DateVisitedOf(id) == ((id * 2) % 5) + (5 * (id \div 5))

Place(id, fav) ==
    [id |-> id, category |-> CategoryOf(id), latitude |-> LatitudeOf(id),
     longitude |-> LongitudeOf(id), date_visited |-> DateVisitedOf(id),
     is_favorite |-> fav]

Range(s) == {s[i] : i \in 1..Len(s)}
Ids(S) == {p.id : p \in S}

\* Place.list('-date_visited'): the entities, most recently visited first.
RECURSIVE List(_)
List(S) ==
    IF S = {} THEN << >>
    ELSE LET first == CHOOSE p \in S :
                          \A q \in S : q.date_visited <= p.date_visited
         IN  <<first>> \o List(S \ {first})

\* The stores the page may be opened on: any entities with distinct ids.
Stores ==
    {S \in SUBSET {Place(i, f) : i \in PlaceIds, f \in BOOLEAN} :
        \A p, q \in S : p.id = q.id => p = q}

\* The stores the interaction specification starts from: they leave one
\* or two of its places to be added.
SeedStores ==
    {{Place(i, FALSE) : i \in 1..k} :
        k \in (MaxInteractionPlaces - 2)..(MaxInteractionPlaces - 1)}

FilterValues == {"all", "restaurant", "activity", "bar", "cafe", "landmark"}
ZoomLevels == {11, 12, 13, 16}

\* Variant of the filter that joins the two tests with || instead of &&.
VisibleEitherMatch(L, c, f) ==
    LET keep(place) ==
            LET categoryMatch == c = "all" \/ place.category = c
                favoriteMatch == ~f \/ place.is_favorite
            IN  categoryMatch \/ favoriteMatch
    IN  SelectSeq(L, keep)

\* places.filter(place => categoryMatch && favoriteMatch)
Visible(L, c, f) ==
    LET keep(place) ==
            LET categoryMatch == c = "all" \/ place.category = c
                favoriteMatch == ~f \/ place.is_favorite
            IN  categoryMatch /\ favoriteMatch
    IN  SelectSeq(L, keep)

filteredPlaces == Visible(places, filterCategory, showFavoritesOnly)

Event(type, arg) == [type |-> type, arg |-> arg]

InitWith(stores) ==
    /\ selectedPlace = Null
    /\ showAddForm = FALSE
    /\ filterCategory = "all"
    /\ showFavoritesOnly = FALSE
    /\ mapCenter = Null
    /\ mapZoom = Null
    /\ highlightedPlace = Null
    /\ currentZoom = InitialZoom
    /\ mapRef = FALSE
    /\ places = << >>
    /\ stale = TRUE
    /\ remote \in stores
    /\ pendingUpdates = << >>
    /\ timers = << >>
    /\ widgetZoom = InitialZoom
    /\ fitBounds = [n |-> 0, box |-> Null]
    /\ lastEvent = Event("mount", Null)
    /\ scheduled = 0
    /\ recenters = 0
    /\ lastToggle = Null
    /\ overwritten = FALSE

Init == InitWith(SeedStores)

\* The queryFn resolves: the cache takes the store's list.
FetchSuccess ==
    /\ stale
    /\ places' = List(remote)
    /\ stale' = FALSE
    /\ lastEvent' = Event("fetchSuccess", Null)
    /\ UNCHANGED <<selectedPlace, showAddForm, filterCategory,
                   showFavoritesOnly, mapCenter, mapZoom, highlightedPlace,
                   currentZoom, mapRef, remote, pendingUpdates, timers,
                   widgetZoom, fitBounds, scheduled, recenters, lastToggle,
                   overwritten>>


(***************************************************************************)
(* Timers.  A callback of setTimeout is never cleared by the page; it runs *)
(* when its delay has passed, so a timer cannot run before an older timer  *)
(* whose delay is not longer than its own.                                 *)
(***************************************************************************)
Timer(kind, place, delay) ==
    [kind |-> kind, place |-> place, delay |-> delay, userActed |-> FALSE]

RemoveAt(s, i) == [k \in 1..(Len(s) - 1) |-> IF k < i THEN s[k] ELSE s[k + 1]]

\* Marks every pending timer as followed by a selection or close of the user.
UserActed(s) == [k \in 1..Len(s) |-> [s[k] EXCEPT !.userActed = TRUE]]

CanFire(i) ==
    /\ i \in 1..Len(timers)
    /\ \A j \in 1..(i - 1) : timers[j].delay > timers[i].delay

\* handleSearchSelect(place)
SearchSelect(place) ==
    /\ place \in Range(places)
    /\ scheduled < MaxScheduled
    /\ mapCenter' = <<place.latitude, place.longitude>>
    /\ mapZoom' = Some(SearchZoom)
    /\ highlightedPlace' = Some(place)
    /\ timers' = Append(timers, Timer("search", place, SearchDelay))
    /\ scheduled' = scheduled + 1
    /\ lastEvent' = Event("searchSelect", Some(place))
    /\ UNCHANGED <<selectedPlace, showAddForm, filterCategory,
                   showFavoritesOnly, currentZoom, mapRef, places, stale,
                   remote, pendingUpdates, widgetZoom, fitBounds, recenters,
                   lastToggle, overwritten>>

\* Variant of handlePlaceAdded that selects the new place at once instead
\* of deferring it with setTimeout.
PlaceAddedSelectsAtOnce(newPlace) ==
    /\ showAddForm
    /\ newPlace.id \notin Ids(remote)
    /\ scheduled < MaxScheduled
    /\ remote' = remote \cup {newPlace}
    /\ stale' = TRUE
    /\ showAddForm' = FALSE
    /\ mapCenter' = <<newPlace.latitude, newPlace.longitude>>
    /\ mapZoom' = Some(AddZoom)
    /\ selectedPlace' = Some(newPlace)
    /\ lastEvent' = Event("placeAdded", Some(newPlace))
    /\ UNCHANGED <<filterCategory, showFavoritesOnly, highlightedPlace,
                   currentZoom, mapRef, places, pendingUpdates, timers,
                   widgetZoom, fitBounds, scheduled, recenters, lastToggle,
                   overwritten>>

\* handlePlaceAdded(newPlace): the add form has stored newPlace and reports it.
PlaceAdded(newPlace) ==
    /\ showAddForm
    /\ newPlace.id \notin Ids(remote)
    /\ scheduled < MaxScheduled
    /\ remote' = remote \cup {newPlace}
    /\ stale' = TRUE
    /\ showAddForm' = FALSE
    /\ mapCenter' = <<newPlace.latitude, newPlace.longitude>>
    /\ mapZoom' = Some(AddZoom)
    /\ timers' = Append(timers, Timer("add", newPlace, AddDelay))
    /\ scheduled' = scheduled + 1
    /\ lastEvent' = Event("placeAdded", Some(newPlace))
    /\ UNCHANGED <<selectedPlace, filterCategory, showFavoritesOnly,
                   highlightedPlace, currentZoom, mapRef, places,
                   pendingUpdates, widgetZoom, fitBounds, recenters,
                   lastToggle, overwritten>>

\* Variant of the search-select callback that omits setHighlightedPlace(null).
FireTimerKeepsHighlight(i) ==
    /\ CanFire(i)
    /\ selectedPlace' = Some(timers[i].place)
    /\ timers' = RemoveAt(timers, i)
    /\ overwritten' =
          (timers[i].userActed /\ selectedPlace # Some(timers[i].place))
    /\ lastEvent' = Event(IF timers[i].kind = "search" THEN "searchTimer"
                          ELSE "addTimer", Some(timers[i].place))
    /\ UNCHANGED <<showAddForm, filterCategory, showFavoritesOnly, mapCenter,
                   mapZoom, highlightedPlace, currentZoom, mapRef, places,
                   stale, remote, pendingUpdates, widgetZoom, fitBounds,
                   scheduled, recenters, lastToggle>>

\* The callback of a timer runs: () => setSelectedPlace(newPlace), or
\* () => { setSelectedPlace(place); setHighlightedPlace(null); }
FireTimer(i) ==
    /\ CanFire(i)
    /\ selectedPlace' = Some(timers[i].place)
    /\ highlightedPlace' =
          IF timers[i].kind = "search" THEN Null ELSE highlightedPlace
    /\ timers' = RemoveAt(timers, i)
    /\ overwritten' =
          (timers[i].userActed /\ selectedPlace # Some(timers[i].place))
    /\ lastEvent' = Event(IF timers[i].kind = "search" THEN "searchTimer"
                          ELSE "addTimer", Some(timers[i].place))
    /\ UNCHANGED <<showAddForm, filterCategory, showFavoritesOnly, mapCenter,
                   mapZoom, currentZoom, mapRef, places, stale, remote,
                   pendingUpdates, widgetZoom, fitBounds, scheduled,
                   recenters, lastToggle>>

\* Variant of the marker click that clears the pending timers
\* (clearTimeout) before it selects.
MarkerClickCancelsTimers(place) ==
    /\ place \in Range(filteredPlaces)
    /\ selectedPlace' = Some(place)
    /\ timers' = << >>
    /\ lastEvent' = Event("markerClick", Some(place))
    /\ UNCHANGED <<showAddForm, filterCategory, showFavoritesOnly, mapCenter,
                   mapZoom, highlightedPlace, currentZoom, mapRef, places,
                   stale, remote, pendingUpdates, widgetZoom, fitBounds,
                   scheduled, recenters, lastToggle, overwritten>>

\* Marker eventHandlers.click: () => setSelectedPlace(place)
MarkerClick(place) ==
    /\ place \in Range(filteredPlaces)
    /\ selectedPlace' = Some(place)
    /\ timers' = UserActed(timers)
    /\ lastEvent' = Event("markerClick", Some(place))
    /\ UNCHANGED <<showAddForm, filterCategory, showFavoritesOnly, mapCenter,
                   mapZoom, highlightedPlace, currentZoom, mapRef, places,
                   stale, remote, pendingUpdates, widgetZoom, fitBounds,
                   scheduled, recenters, lastToggle, overwritten>>

\* PlaceCard onClose: () => setSelectedPlace(null); the card is rendered
\* only while selectedPlace is set.
CloseCard ==
    /\ selectedPlace # Null
    /\ selectedPlace' = Null
    /\ timers' = UserActed(timers)
    /\ lastEvent' = Event("close", Null)
    /\ UNCHANGED <<showAddForm, filterCategory, showFavoritesOnly, mapCenter,
                   mapZoom, highlightedPlace, currentZoom, mapRef, places,
                   stale, remote, pendingUpdates, widgetZoom, fitBounds,
                   scheduled, recenters, lastToggle, overwritten>>

\* "Add Place" button: () => setShowAddForm(true)
OpenAddForm ==
    /\ ~showAddForm
    /\ showAddForm' = TRUE
    /\ lastEvent' = Event("openAddForm", Null)
    /\ UNCHANGED <<selectedPlace, filterCategory, showFavoritesOnly,
                   mapCenter, mapZoom, highlightedPlace, currentZoom, mapRef,
                   places, stale, remote, pendingUpdates, timers, widgetZoom,
                   fitBounds, scheduled, recenters, lastToggle, overwritten>>

\* AddPlaceForm onClose: () => setShowAddForm(false)
CloseAddForm ==
    /\ showAddForm
    /\ showAddForm' = FALSE
    /\ lastEvent' = Event("closeAddForm", Null)
    /\ UNCHANGED <<selectedPlace, filterCategory, showFavoritesOnly,
                   mapCenter, mapZoom, highlightedPlace, currentZoom, mapRef,
                   places, stale, remote, pendingUpdates, timers, widgetZoom,
                   fitBounds, scheduled, recenters, lastToggle, overwritten>>

\* The places the add form can report: not yet favourites.
NewPlaces == {Place(id, FALSE) : id \in 1..MaxInteractionPlaces}

Next ==
    \/ FetchSuccess
    \/ \E place \in Range(places) : SearchSelect(place)
    \/ \E place \in Range(places) : MarkerClick(place)
    \/ CloseCard
    \/ OpenAddForm
    \/ CloseAddForm
    \/ \E newPlace \in NewPlaces : PlaceAdded(newPlace)
    \/ \E i \in 1..Len(timers) : FireTimer(i)

Spec == Init /\ [][Next]_vars

\* A pending callback runs once its delay has passed: the oldest timer is
\* always due first or with the others.
FairSpec == Spec /\ WF_vars(FireTimer(1))


(***************************************************************************)
(* The store adapter: the favourite toggle of the PlaceCard, which is      *)
(* handed the place held in selectedPlace, and the mutation's outcome.     *)
(***************************************************************************)
\* handleToggleFavorite(place): mutateAsync({id, data: {is_favorite: !...}})
ToggleFavorite ==
    /\ selectedPlace # Null
    /\ Len(pendingUpdates) < MaxPending
    /\ LET place == selectedPlace[1]
       IN  /\ pendingUpdates' =
                Append(pendingUpdates,
                       [id |-> place.id,
                        data |-> [is_favorite |-> ~place.is_favorite]])
           /\ lastToggle' =
                IF /\ place.id \in Ids(Range(places))
                   /\ pendingUpdates = << >>
                   /\ ~stale
                THEN Some([id |-> place.id, cacheBefore |-> places])
                ELSE Null
           /\ lastEvent' = Event("toggleFavorite", Some(place))
    /\ UNCHANGED <<selectedPlace, showAddForm, filterCategory,
                   showFavoritesOnly, mapCenter, mapZoom, highlightedPlace,
                   currentZoom, mapRef, places, stale, remote, timers,
                   widgetZoom, fitBounds, scheduled, recenters, overwritten>>

\* Place.update(id, data) applies the partial fields to the entity.
Updated(S, id, data) ==
    {IF p.id = id THEN [p EXCEPT !.is_favorite = data.is_favorite] ELSE p :
        p \in S}

\* The update resolves; onSuccess: invalidateQueries(['places'])
UpdateSuccess(i) ==
    /\ i \in 1..Len(pendingUpdates)
    /\ remote' = Updated(remote, pendingUpdates[i].id, pendingUpdates[i].data)
    /\ pendingUpdates' = RemoveAt(pendingUpdates, i)
    /\ stale' = TRUE
    /\ lastEvent' = Event("updateSuccess", Null)
    /\ UNCHANGED <<selectedPlace, showAddForm, filterCategory,
                   showFavoritesOnly, mapCenter, mapZoom, highlightedPlace,
                   currentZoom, mapRef, places, timers, widgetZoom, fitBounds,
                   scheduled, recenters, lastToggle, overwritten>>

\* The update rejects: the store and the cache are left as they are.
UpdateError(i) ==
    /\ i \in 1..Len(pendingUpdates)
    /\ pendingUpdates' = RemoveAt(pendingUpdates, i)
    /\ lastToggle' = Null
    /\ lastEvent' = Event("updateError", Null)
    /\ UNCHANGED <<selectedPlace, showAddForm, filterCategory,
                   showFavoritesOnly, mapCenter, mapZoom, highlightedPlace,
                   currentZoom, mapRef, places, stale, remote, timers,
                   widgetZoom, fitBounds, scheduled, recenters, overwritten>>

StoreInit == InitWith(Stores)

StoreNext ==
    \/ FetchSuccess
    \/ \E place \in Range(places) : MarkerClick(place)
    \/ CloseCard
    \/ ToggleFavorite
    \/ \E i \in 1..Len(pendingUpdates) : UpdateSuccess(i)
    \/ \E i \in 1..Len(pendingUpdates) : UpdateError(i)

StoreSpec == StoreInit /\ [][StoreNext]_vars

(***************************************************************************)
(* The view: category filter, marker icons, zoom tracking and recentering. *)
(***************************************************************************)
\* Filter buttons: () => setFilterCategory(c)
SetFilterCategory(c) ==
    /\ c # filterCategory
    /\ filterCategory' = c
    /\ lastEvent' = Event("setFilterCategory", Null)
    /\ UNCHANGED <<selectedPlace, showAddForm, showFavoritesOnly, mapCenter,
                   mapZoom, highlightedPlace, currentZoom, mapRef, places,
                   stale, remote, pendingUpdates, timers, widgetZoom,
                   fitBounds, scheduled, recenters, lastToggle, overwritten>>

\* The MapContainer has created the map: ref={mapRef} holds it, and the
\* effect of ZoomTracker registers the listener and calls updateZoom().
MapMounted ==
    /\ ~mapRef
    /\ mapRef' = TRUE
    /\ currentZoom' = widgetZoom
    /\ lastEvent' = Event("mapMounted", Null)
    /\ UNCHANGED <<selectedPlace, showAddForm, filterCategory,
                   showFavoritesOnly, mapCenter, mapZoom, highlightedPlace,
                   places, stale, remote, pendingUpdates, timers, widgetZoom,
                   fitBounds, scheduled, recenters, lastToggle, overwritten>>

\* The widget finishes a zoom at level z: 'zoomend' runs updateZoom.
ZoomEnd(z) ==
    /\ mapRef
    /\ z # widgetZoom
    /\ widgetZoom' = z
    /\ currentZoom' = z
    /\ lastEvent' = Event("zoomend", Null)
    /\ UNCHANGED <<selectedPlace, showAddForm, filterCategory,
                   showFavoritesOnly, mapCenter, mapZoom, highlightedPlace,
                   mapRef, places, stale, remote, pendingUpdates, timers,
                   fitBounds, scheduled, recenters, lastToggle, overwritten>>

Min(S) == CHOOSE x \in S : \A y \in S : x <= y
Max(S) == CHOOSE x \in S : \A y \in S : y <= x

\* L.latLngBounds(points): the smallest box holding every point.
latLngBounds(points) ==
    LET lats == {points[i][1] : i \in 1..Len(points)}
        lngs == {points[i][2] : i \in 1..Len(points)}
    IN  [southWest |-> <<Min(lats), Min(lngs)>>,
         northEast |-> <<Max(lats), Max(lngs)>>]

\* Variant of handleRecenter that fits the map to every cached place
\* instead of the visible ones.
RecenterAllPlaces ==
    /\ recenters < MaxRecenters
    /\ recenters' = recenters + 1
    /\ IF Len(places) > 0 /\ mapRef
       THEN LET bounds ==
                    latLngBounds([i \in 1..Len(places) |->
                        <<places[i].latitude, places[i].longitude>>])
            IN  fitBounds' = [n |-> fitBounds.n + 1, box |-> Some(bounds)]
       ELSE fitBounds' = fitBounds
    /\ lastEvent' = Event("recenter", Null)
    /\ UNCHANGED <<selectedPlace, showAddForm, filterCategory,
                   showFavoritesOnly, mapCenter, mapZoom, highlightedPlace,
                   currentZoom, mapRef, places, stale, remote, pendingUpdates,
                   timers, widgetZoom, scheduled, lastToggle, overwritten>>

\* handleRecenter()
Recenter ==
    /\ recenters < MaxRecenters
    /\ recenters' = recenters + 1
    /\ IF Len(filteredPlaces) > 0 /\ mapRef
       THEN LET bounds ==
                    latLngBounds([i \in 1..Len(filteredPlaces) |->
                        <<filteredPlaces[i].latitude,
                          filteredPlaces[i].longitude>>])
            IN  fitBounds' = [n |-> fitBounds.n + 1, box |-> Some(bounds)]
       ELSE fitBounds' = fitBounds
    /\ lastEvent' = Event("recenter", Null)
    /\ UNCHANGED <<selectedPlace, showAddForm, filterCategory,
                   showFavoritesOnly, mapCenter, mapZoom, highlightedPlace,
                   currentZoom, mapRef, places, stale, remote, pendingUpdates,
                   timers, widgetZoom, scheduled, lastToggle, overwritten>>

\* icon={createIcon(categoryColors[place.category] || '#6b7280', currentZoom)}
MarkerIcon(place) == createIcon(MarkerColor(place.category), currentZoom)

ViewInit == InitWith(Stores)

ViewNext ==
    \/ FetchSuccess
    \/ \E c \in FilterValues : SetFilterCategory(c)
    \/ MapMounted
    \/ \E z \in ZoomLevels : ZoomEnd(z)
    \/ Recenter

ViewSpec == ViewInit /\ [][ViewNext]_vars


(***************************************************************************)
(* Properties.                                                             *)
(***************************************************************************)
Coordinates(place) == <<place.latitude, place.longitude>>

\* The positions of L that the filter state (c, f) lets through.
Matching(L, c, f) ==
    {i \in 1..Len(L) :
        /\ c = "all" \/ L[i].category = c
        /\ ~f \/ L[i].is_favorite}

\* C1: for the cached list and every filter state (c, f), the visible list
\* holds exactly the matching places of the cache, in the cache's order, so
\* it is never longer than the cache; the list the page renders is the one
\* of its current filter state.
C1_VisibleIsOrderedFilter ==
    /\ \A c \in FilterValues, f \in BOOLEAN :
          LET V == Visible(places, c, f)
              M == Matching(places, c, f)
          IN  /\ Len(V) = Cardinality(M)
              /\ Len(V) <= Len(places)
              /\ \A i \in M :
                    V[Cardinality({j \in M : j < i}) + 1] = places[i]
    /\ Len(filteredPlaces) =
          Cardinality(Matching(places, filterCategory, showFavoritesOnly))
    /\ \A k \in 1..Len(filteredPlaces) :
          /\ filterCategory \in {"all", filteredPlaces[k].category}
          /\ showFavoritesOnly => filteredPlaces[k].is_favorite

\* C1 witness: a cache of three places of which a category filter shows
\* two, and of which the favourites are a different proper sublist.
C1_Witness ==
    /\ Len(places) >= 3
    /\ filterCategory = "bar"
    /\ Len(filteredPlaces) = 2
    /\ Len(Visible(places, "all", TRUE)) = 2
    /\ Visible(places, "all", TRUE) # filteredPlaces

\* C2: right after search-select(p), from any state, highlight = p, no
\* detail card is shown (selection = null) and the viewport target is p's
\* coordinates at zoom 16; right after its timer runs, highlight = null and
\* selection = p.
C2_SearchSelectClearsSelection ==
    /\ lastEvent.type = "searchSelect" =>
          /\ highlightedPlace = lastEvent.arg
          /\ selectedPlace = Null
          /\ mapCenter = Coordinates(lastEvent.arg[1])
          /\ mapZoom = Some(SearchZoom)
    /\ lastEvent.type = "searchTimer" =>
          /\ highlightedPlace = Null
          /\ selectedPlace = lastEvent.arg

\* C3: the add-place success step for n invalidates the cache, closes the
\* form, targets n's coordinates at zoom 15, leaves the selection as it was
\* and leaves n's timer pending; the step in which that timer runs sets the
\* selection to n.
C3_PlaceAddedThenSelected ==
    [][/\ lastEvent'.type = "placeAdded" =>
            /\ stale'
            /\ ~showAddForm'
            /\ mapCenter' = Coordinates(lastEvent'.arg[1])
            /\ mapZoom' = Some(AddZoom)
            /\ selectedPlace' = selectedPlace
            /\ timers' = Append(timers,
                                Timer("add", lastEvent'.arg[1], AddDelay))
       /\ lastEvent'.type = "addTimer" =>
            /\ selectedPlace' = lastEvent'.arg
            /\ \E i \in 1..Len(timers) :
                  /\ timers[i].kind = "add"
                  /\ timers[i].place = lastEvent'.arg[1]
                  /\ timers' = RemoveAt(timers, i)]_vars

\* C3 witness: the timer of an added place has just run: the new place is
\* selected, the form is closed and the viewport target is the one the add
\* set.
C3_Witness ==
    /\ lastEvent.type = "addTimer"
    /\ selectedPlace = lastEvent.arg
    /\ mapCenter = Coordinates(lastEvent.arg[1])
    /\ mapZoom = Some(AddZoom)
    /\ ~showAddForm

\* C4: the marker pulse and the detail card are never active together: the
\* state is Idle, Highlighting(p) or Selected(p).
C4_PulseAndCardExclusive == ~(highlightedPlace # Null /\ selectedPlace # Null)

\* C5: a favourite toggle on a cached place p sends update(p.id,
\* {is_favorite: not p.is_favorite}); once that update has succeeded and the
\* refetch has completed, the cache is the cache of before the toggle with
\* p's is_favorite negated and every other place unchanged.
C5_ToggleRoundTrip ==
    /\ lastEvent.type = "toggleFavorite" =>
          \A k \in 1..Len(places) :
              places[k].id = lastEvent.arg[1].id =>
                  pendingUpdates[Len(pendingUpdates)] =
                      [id |-> places[k].id,
                       data |-> [is_favorite |-> ~places[k].is_favorite]]
    /\ (lastToggle # Null /\ pendingUpdates = << >> /\ ~stale) =>
          LET before == lastToggle[1].cacheBefore
          IN  /\ Len(places) = Len(before)
              /\ \A k \in 1..Len(before) :
                    places[k] =
                        IF before[k].id = lastToggle[1].id
                        THEN [before[k] EXCEPT
                                !.is_favorite = ~before[k].is_favorite]
                        ELSE before[k]

\* The state of the page and of its collaborators, without the observation
\* variables.
programState ==
    <<selectedPlace, showAddForm, filterCategory, showFavoritesOnly,
      mapCenter, mapZoom, highlightedPlace, currentZoom, mapRef, places,
      stale, remote, pendingUpdates, timers, widgetZoom, fitBounds>>

\* box is the smallest box holding the coordinates of every place of L.
IsBoundingBox(box, L) ==
    /\ \A i \in 1..Len(L) :
          /\ box.southWest[1] <= L[i].latitude
          /\ L[i].latitude <= box.northEast[1]
          /\ box.southWest[2] <= L[i].longitude
          /\ L[i].longitude <= box.northEast[2]
    /\ \E i \in 1..Len(L) : L[i].latitude = box.southWest[1]
    /\ \E i \in 1..Len(L) : L[i].latitude = box.northEast[1]
    /\ \E i \in 1..Len(L) : L[i].longitude = box.southWest[2]
    /\ \E i \in 1..Len(L) : L[i].longitude = box.northEast[2]

\* A step is a run of handleRecenter exactly when it counts one; such a
\* step calls fitBounds, with the bounding box of the visible places, if
\* callExpected holds and otherwise changes nothing; no other step calls
\* fitBounds.
RecenterContract(callExpected) ==
    /\ recenters' # recenters =>
          IF callExpected
          THEN /\ fitBounds'.n = fitBounds.n + 1
               /\ fitBounds'.box # Null
               /\ IsBoundingBox(fitBounds'.box[1], filteredPlaces)
          ELSE programState' = programState
    /\ recenters' = recenters => fitBounds' = fitBounds

\* C6 as stated: recenter calls fitBounds if and only if the visible list
\* is non-empty, with the bounding box of exactly the visible places; with
\* no visible place it calls nothing and changes nothing.
C6_RecenterIffVisible ==
    [][RecenterContract(Len(filteredPlaces) > 0)]_vars

\* C6 as amended: recenter calls fitBounds if and only if the visible list
\* is non-empty and the map handle (mapRef.current) is set, with the
\* bounding box of exactly the visible places; otherwise it calls nothing
\* and changes nothing.
C6_RecenterIffVisibleAndMounted ==
    [][RecenterContract(Len(filteredPlaces) > 0 /\ mapRef)]_vars

\* C6 witness: recenter has just fitted the map to two visible places that
\* are a proper part of the cache and lie at different coordinates.
C6_Witness ==
    /\ lastEvent.type = "recenter"
    /\ fitBounds.n > 0
    /\ Len(filteredPlaces) = 2
    /\ Len(places) > 2
    /\ fitBounds.box[1].southWest # fitBounds.box[1].northEast
    /\ IsBoundingBox(fitBounds.box[1], filteredPlaces)
    /\ ~IsBoundingBox(fitBounds.box[1], places)

\* C7: every marker has the small size (16x21) when the zoom is below 13
\* and the large size (32x42) otherwise, the fixed colour of its category
\* for the five known categories and the default colour for any other
\* category string; the zoom used is the one of the widget's last finished
\* zoom (12 before any).
C7_MarkerIconByCategoryAndZoom ==
    /\ currentZoom = widgetZoom
    /\ \A k \in 1..Len(filteredPlaces) :
          LET place == filteredPlaces[k]
              icon == MarkerIcon(place)
          IN  /\ icon.iconSize =
                    IF currentZoom < 13 THEN <<16, 21>> ELSE <<32, 42>>
              /\ icon.color =
                    IF place.category \in DOMAIN categoryColors
                    THEN categoryColors[place.category]
                    ELSE DefaultColor

\* The pending timers without the observation flag.
Pending(s) ==
    [k \in 1..Len(s) |->
        [kind |-> s[k].kind, place |-> s[k].place, delay |-> s[k].delay]]

\* C8: a timer is never cancelled.  In every step the pending timers stay
\* as they are, or gain one at the end, or lose exactly one, and the step
\* that removes a timer is its callback: it sets the selection to the
\* timer's own place and, for a search-select timer, clears the highlight,
\* whatever was selected or highlighted.  So the timers set so far are the
\* pending ones plus those that have run.
C8_TimersNeverCancelled ==
    [][LET a == Pending(timers)
           b == Pending(timers')
       IN  \/ b = a
           \/ /\ Len(b) = Len(a) + 1
              /\ SubSeq(b, 1, Len(a)) = a
              /\ scheduled' = scheduled + 1
           \/ \E i \in 1..Len(a) :
                 /\ b = RemoveAt(a, i)
                 /\ selectedPlace' = Some(a[i].place)
                 /\ a[i].kind = "search" => highlightedPlace' = Null
                 /\ lastEvent'.type \in {"searchTimer", "addTimer"}
                 /\ scheduled' = scheduled]_vars

\* C8 witness: a timer has just replaced what the user selected or closed
\* after the timer was set.
C8_Witness ==
    /\ overwritten
    /\ lastEvent.type \in {"searchTimer", "addTimer"}
    /\ selectedPlace = lastEvent.arg

\* C9: while a place is highlighted a search-select timer is pending, and
\* with timers running when due every highlight is eventually cleared.
C9_HighlightAutoClears ==
    /\ [](highlightedPlace # Null =>
            \E i \in 1..Len(timers) : timers[i].kind = "search")
    /\ (highlightedPlace # Null) ~> (highlightedPlace = Null)

\* C9 witness: a place is highlighted while another is selected and timers
\* of both kinds are pending.
C9_Witness ==
    /\ highlightedPlace # Null
    /\ selectedPlace # Null
    /\ selectedPlace # highlightedPlace
    /\ \E i, j \in 1..Len(timers) :
          timers[i].kind = "search" /\ timers[j].kind = "add"

\* C10: with no fetch and no update in flight, the selected place has the
\* is_favorite value of the cached place with the same id.
C10_SelectionMatchesCache ==
    (selectedPlace # Null /\ pendingUpdates = << >> /\ ~stale) =>
        \A k \in 1..Len(places) :
            places[k].id = selectedPlace[1].id =>
                places[k].is_favorite = selectedPlace[1].is_favorite

=============================================================================
